---- MODULE Spec2Model ----
(***************************************************************************)
(* Attention counters (utils/helpers.py) and the percentage file writer    *)
(* (utils/file_writer.py).                                                 *)
(*                                                                         *)
(* Numbers.  Gaze angles and the attention threshold are integers in units *)
(* of 0.01 rad.  A percentage sample is an exact rational <<num, den>> in  *)
(* lowest terms (den > 0); Python computes the same quantity as a double,  *)
(* which differs from the rational by a few ulps only.  The file content   *)
(* is a sequence of one-character strings.                                 *)
(***************************************************************************)
EXTENDS Integers, Sequences, FiniteSets, TLC

VARIABLES
    looks_count,        \* helpers.py:23
    no_looks_count,     \* helpers.py:24
    total_faces,        \* helpers.py:25
    percentage_queue,   \* file_writer.py:6, the items of the Queue, oldest first
    unfinished_tasks,   \* Queue.unfinished_tasks of percentage_queue
    pc,                 \* where the writer thread is in percentage_writer
    percentage,         \* the writer's local variable (file_writer.py:12),
                        \* None until the first get
    file,               \* content of ../percentage.txt as a reader sees it
    n_failed,           \* history: number of write attempts that raised
    put_log,            \* history: every item ever put on the queue, in order
    attempts,           \* history: the samples the writer attempted to write, in order
    n_calls,            \* history: number of completed draw_bbox_gaze calls
    n_true,             \* history: how many of them returned True
    last_gaze,          \* history: <<pitch, yaw, attention_threshold>> of the last
                        \* draw_bbox_gaze call a specification chose to record
    frame_threads       \* per extra frame thread: where it is in draw_bbox_gaze,
                        \* its is_looking and the counter value it has loaded

vars == <<looks_count, no_looks_count, total_faces, percentage_queue,
          unfinished_tasks, pc, percentage, file, n_failed, put_log,
          attempts, n_calls, n_true, last_gaze, frame_threads>>

counters == <<looks_count, no_looks_count, total_faces>>
history_faces == <<n_calls, n_true, last_gaze>>
writer_vars == <<pc, percentage, file, n_failed, attempts>>

-----------------------------------------------------------------------------
(* Bounds of the model *)

MaxFaces == 3
MaxPuts == 4
NumThreads == 2
MaxLiveFaces == 1
ShutdownSamples == 5

\* gaze angles offered to draw_bbox_gaze, in 0.01 rad (12^2 + 16^2 = 20^2)
Angles == {-30, 0, 12, 16, 21}
\* attention thresholds offered to draw_bbox_gaze, in 0.01 rad (default 0.20)
Thresholds == {0, 20}
\* the calls offered where the arguments are not recorded: a face exactly at
\* the default threshold and a face beyond it
SampleCalls == {<<12, 16, 20>>, <<21, 16, 20>>}

-----------------------------------------------------------------------------
(* Values *)

\* Python's None, the sentinel of percentage_writer
None == <<>>

\* the file before the writer ever opened it (no such file)
NoFile == <<"ENOENT">>

RECURSIVE GCD(_, _)
GCD(a, b) == IF b = 0 THEN a ELSE GCD(b, a % b)

\* the number n/d
Rat(n, d) == LET g == GCD(n, d) IN <<n \div g, d \div g>>

\* the literal 0 of helpers.py:203
Zero == Rat(0, 1)

-----------------------------------------------------------------------------
(* helpers.py *)

RECURSIVE CeilSqrtFrom(_, _)
CeilSqrtFrom(s, d) == IF d * d >= s THEN d ELSE CeilSqrtFrom(s, d + 1)

Abs(x) == IF x < 0 THEN -x ELSE x

MaxOf(a, b) == IF a >= b THEN a ELSE b

\* helpers.py:117, np.sqrt(pitch**2 + yaw**2), rounded up to a whole 0.01 rad:
\* against an integer threshold t, sqrt(s) <= t exactly when ceil(sqrt(s)) <= t
\* (the search starts at max(|pitch|, |yaw|), which the root is never below)
deviation(pitch, yaw) ==
    CeilSqrtFrom(pitch * pitch + yaw * yaw, MaxOf(Abs(pitch), Abs(yaw)))

draw_gaze_strict(pitch, yaw, attention_threshold) ==
    deviation(pitch, yaw) < attention_threshold

\* draw_gaze's result (helpers.py:145): deviation <= attention_threshold
draw_gaze(pitch, yaw, attention_threshold) ==
    deviation(pitch, yaw) <= attention_threshold

NextLooksCountAlways(is_looking) == looks_count + 1

NextLooksCountReset(is_looking) ==
    IF is_looking THEN looks_count + 1 ELSE 0

\* helpers.py:189-190
NextLooksCount(is_looking) ==
    IF is_looking THEN looks_count + 1 ELSE looks_count

NextNoLooksCountNoElse(is_looking) == no_looks_count + 1

\* helpers.py:191-192
NextNoLooksCount(is_looking) ==
    IF is_looking THEN no_looks_count ELSE no_looks_count + 1

draw_bbox_gaze(pitch, yaw, attention_threshold) ==
    LET is_looking == draw_gaze(pitch, yaw, attention_threshold) IN
    /\ total_faces' = total_faces + 1
    /\ looks_count' = NextLooksCount(is_looking)
    /\ no_looks_count' = NextNoLooksCount(is_looking)
    /\ n_calls' = n_calls + 1
    /\ n_true' = IF is_looking THEN n_true + 1 ELSE n_true
    /\ UNCHANGED <<percentage_queue, unfinished_tasks, put_log, writer_vars,
                   frame_threads>>

\* the arguments of a call before any was recorded
NoGaze == <<>>

(* draw_bbox_gaze called from several threads.  Nothing in helpers.py locks
   the counters, and "x += 1" on a global is a load, an add and a store, so
   another thread may run between any two of these steps. *)

Threads == 1..NumThreads

IdleThread == [at |-> "idle", is_looking |-> FALSE, loaded |-> 0]

other_vars == <<percentage_queue, unfinished_tasks, put_log, writer_vars,
                last_gaze>>

\* helpers.py:182-185: the call up to the result of draw_gaze
gaze_call(t, pitch, yaw, attention_threshold) ==
    /\ frame_threads[t].at = "idle"
    /\ frame_threads' = [frame_threads EXCEPT ![t] =
            [at |-> "load_total",
             is_looking |-> draw_gaze(pitch, yaw, attention_threshold),
             loaded |-> 0]]
    /\ UNCHANGED <<counters, n_calls, n_true, other_vars>>

\* helpers.py:188, total_faces += 1: the load
gaze_load_total(t) ==
    /\ frame_threads[t].at = "load_total"
    /\ frame_threads' = [frame_threads EXCEPT ![t].at = "store_total",
                                              ![t].loaded = total_faces]
    /\ UNCHANGED <<counters, n_calls, n_true, other_vars>>

\* helpers.py:188, total_faces += 1: the store
gaze_store_total(t) ==
    /\ frame_threads[t].at = "store_total"
    /\ total_faces' = frame_threads[t].loaded + 1
    /\ frame_threads' = [frame_threads EXCEPT ![t].at = "load_count"]
    /\ UNCHANGED <<looks_count, no_looks_count, n_calls, n_true, other_vars>>

\* helpers.py:189-192, looks_count += 1 or no_looks_count += 1: the load
gaze_load_count(t) ==
    /\ frame_threads[t].at = "load_count"
    /\ frame_threads' = [frame_threads EXCEPT ![t].at = "store_count",
            ![t].loaded = IF frame_threads[t].is_looking
                          THEN looks_count ELSE no_looks_count]
    /\ UNCHANGED <<counters, n_calls, n_true, other_vars>>

\* helpers.py:189-194: the store, and the return of is_looking
gaze_store_count(t) ==
    /\ frame_threads[t].at = "store_count"
    /\ IF frame_threads[t].is_looking
       THEN /\ looks_count' = frame_threads[t].loaded + 1
            /\ UNCHANGED no_looks_count
       ELSE /\ no_looks_count' = frame_threads[t].loaded + 1
            /\ UNCHANGED looks_count
    /\ n_calls' = n_calls + 1
    /\ n_true' = IF frame_threads[t].is_looking THEN n_true + 1 ELSE n_true
    /\ frame_threads' = [frame_threads EXCEPT ![t] = IdleThread]
    /\ UNCHANGED <<total_faces, other_vars>>

\* the calls that have started and not returned
CallsInProgress == {t \in Threads : frame_threads[t].at # "idle"}

LookingPercentageNoScale(looks, total) ==
    IF total > 0 THEN Rat(looks, total) ELSE Zero

\* helpers.py:203-205
LookingPercentage(looks, total) ==
    IF total > 0 THEN Rat(looks * 100, total) ELSE Zero

-----------------------------------------------------------------------------
(* queue.Queue *)

\* Queue() at file_writer.py:6: maxsize defaults to 0, "infinite"
maxsize == 0

QueueFullOne(q) == Len(q) >= 1

\* Queue.put blocks while this holds
QueueFull(q) == maxsize > 0 /\ Len(q) >= maxsize

\* Queue.put(item)
QueuePut(item) ==
    /\ ~QueueFull(percentage_queue)
    /\ percentage_queue' = Append(percentage_queue, item)
    /\ unfinished_tasks' = unfinished_tasks + 1
    /\ put_log' = Append(put_log, item)

QueueFrontLifo(q) == q[Len(q)]

\* the item Queue.get returns: the oldest
QueueFront(q) == Head(q)

\* helpers.py:196-208 (the drawing after the put changes only the frame)
draw_stats ==
    /\ QueuePut(LookingPercentage(looks_count, total_faces))
    /\ UNCHANGED <<frame_threads, counters, history_faces, writer_vars>>

\* the owning process asks the writer to stop: percentage_queue.put(None)
put_sentinel ==
    /\ QueuePut(None)
    /\ UNCHANGED <<frame_threads, counters, history_faces, writer_vars>>

-----------------------------------------------------------------------------
(* file_writer.py *)

DigitChars == <<"0", "1", "2", "3", "4", "5", "6", "7", "8", "9">>

RECURSIVE Digits(_)
Digits(k) ==
    IF k < 10 THEN <<DigitChars[k + 1]>>
    ELSE Digits(k \div 10) \o <<DigitChars[(k % 10) + 1]>>

\* p in tenths, rounded to nearest, ties to even (a tie needs a denominator
\* that is a multiple of 16, beyond the face counts of this model)
Tenths(p) ==
    LET n == 10 * p[1]
        d == p[2]
        q == n \div d
        r == n % d
    IN  IF 2 * r < d THEN q
        ELSE IF 2 * r > d THEN q + 1
        ELSE IF q % 2 = 0 THEN q ELSE q + 1

\* f"{percentage:.1f}" for percentage >= 0
Format1f(p) ==
    LET t == Tenths(p) IN Digits(t \div 10) \o <<".">> \o Digits(t % 10)

IsFalsy(p) == p = None \/ p = Zero

\* file_writer.py:14
IsSentinel(p) == p = None

BreakTargetContinue == "get"

\* file_writer.py:15, break leaves the loop and the thread ends
BreakTarget == "stopped"

\* get(block=False): queue.Empty, uncaught, ends the thread on an empty queue
writer_get_nowait ==
    /\ pc = "get"
    /\ IF percentage_queue = <<>>
       THEN /\ pc' = "stopped"
            /\ UNCHANGED <<percentage, percentage_queue>>
       ELSE /\ percentage' = Head(percentage_queue)
            /\ percentage_queue' = Tail(percentage_queue)
            /\ pc' = IF percentage' = None THEN "stopped" ELSE "open"
    /\ UNCHANGED <<frame_threads, counters, history_faces, unfinished_tasks,
                   file, n_failed, put_log, attempts>>

\* the file opened before the sentinel test instead of after it
writer_get_opens_first ==
    /\ pc = "get"
    /\ percentage_queue # <<>>
    /\ percentage' = QueueFront(percentage_queue)
    /\ percentage_queue' = Tail(percentage_queue)
    /\ pc' = IF percentage' = None THEN "stopped" ELSE "open"
    /\ file' = <<>>
    /\ UNCHANGED <<frame_threads, counters, history_faces, unfinished_tasks,
                   n_failed, put_log, attempts>>

\* file_writer.py:12-15
writer_get ==
    /\ pc = "get"
    /\ percentage_queue # <<>>
    /\ percentage' = QueueFront(percentage_queue)
    /\ percentage_queue' = Tail(percentage_queue)
    /\ pc' = IF IsSentinel(percentage') THEN BreakTarget ELSE "open"
    /\ UNCHANGED <<frame_threads, counters, history_faces, unfinished_tasks, file, n_failed,
                   put_log, attempts>>

OpenAppend(f) == IF f = NoFile THEN <<>> ELSE f

\* open(filepath, 'w') creates or truncates the file
OpenTruncate(f) == <<>>

ExceptTargetRaise == "stopped"

\* the handler skipping task_done, as a continue in the except block would
ExceptTargetSkipDone == "get"

\* file_writer.py:22-23, the handler falls through to task_done
ExceptTarget == "task_done"

\* file_writer.py:20: open succeeds, or raises and leaves the file alone
writer_open ==
    /\ pc = "open"
    /\ attempts' = Append(attempts, percentage)
    /\ \/ /\ file' = OpenTruncate(file)
          /\ pc' = "write"
          /\ n_failed' = n_failed
       \/ /\ file' = file
          /\ pc' = ExceptTarget
          /\ n_failed' = n_failed + 1
    /\ UNCHANGED <<frame_threads, counters, history_faces, percentage_queue, unfinished_tasks,
                   percentage, put_log>>

\* file_writer.py:21 and the close of the with block: the text reaches the
\* file, or the write raises having stored only a proper prefix of it
writer_write ==
    /\ pc = "write"
    /\ LET text == Format1f(percentage) IN
       \/ /\ file' = file \o text
          /\ pc' = "task_done"
          /\ n_failed' = n_failed
       \/ /\ \E k \in 0..(Len(text) - 1) : file' = file \o SubSeq(text, 1, k)
          /\ pc' = ExceptTarget
          /\ n_failed' = n_failed + 1
    /\ UNCHANGED <<frame_threads, counters, history_faces, percentage_queue, unfinished_tasks,
                   percentage, put_log, attempts>>

\* file_writer.py:26
writer_task_done ==
    /\ pc = "task_done"
    /\ unfinished_tasks' = unfinished_tasks - 1
    /\ pc' = "get"
    /\ UNCHANGED <<frame_threads, counters, history_faces, percentage_queue, percentage, file,
                   n_failed, put_log, attempts>>

percentage_writer ==
    \/ writer_get
    \/ writer_open
    \/ writer_write
    \/ writer_task_done

-----------------------------------------------------------------------------
(* Specifications *)

Init ==
    /\ looks_count = 0
    /\ no_looks_count = 0
    /\ total_faces = 0
    /\ percentage_queue = <<>>
    /\ unfinished_tasks = 0
    /\ pc = "get"
    /\ percentage = None
    /\ file = NoFile
    /\ n_failed = 0
    /\ put_log = <<>>
    /\ attempts = <<>>
    /\ n_calls = 0
    /\ n_true = 0
    /\ last_gaze = NoGaze
    /\ frame_threads = [t \in Threads |-> IdleThread]

Faces ==
    /\ total_faces < MaxFaces
    /\ \E call \in SampleCalls : draw_bbox_gaze(call[1], call[2], call[3])
    /\ UNCHANGED last_gaze

Stats ==
    /\ Len(put_log) < MaxPuts
    /\ draw_stats

Shutdown ==
    /\ Len(put_log) < MaxPuts
    /\ put_sentinel

Next ==
    \/ Faces
    \/ Stats
    \/ Shutdown
    \/ percentage_writer

Spec == Init /\ [][Next]_vars

\* the writer is a thread of its own: the scheduler lets it run whenever it
\* can take a step
LiveFaces ==
    /\ total_faces < MaxLiveFaces
    /\ Faces

NextLive ==
    \/ LiveFaces
    \/ Stats
    \/ Shutdown
    \/ percentage_writer

FairSpec == Init /\ [][NextLive]_vars /\ WF_vars(percentage_writer)

\* the caller of the shutdown scenario: ShutdownSamples draw_stats calls, then
\* the sentinel, then nothing more
StatsBeforeShutdown ==
    /\ Len(put_log) < ShutdownSamples
    /\ draw_stats

ShutdownAfterStats ==
    /\ Len(put_log) = ShutdownSamples
    /\ put_sentinel

NextShutdown ==
    \/ Faces
    \/ StatsBeforeShutdown
    \/ ShutdownAfterStats
    \/ percentage_writer

SpecShutdown == Init /\ [][NextShutdown]_vars

\* the frame thread alone, each call's arguments recorded
FacesRecorded ==
    /\ total_faces < MaxFaces
    /\ \E pitch \in Angles, yaw \in Angles, thr \in Thresholds :
          /\ draw_bbox_gaze(pitch, yaw, thr)
          /\ last_gaze' = <<pitch, yaw, thr>>

NextGaze == FacesRecorded \/ Stats

SpecGaze == Init /\ [][NextGaze]_vars

\* several frame threads, and a thread that calls draw_stats
ThreadCall ==
    /\ n_calls + Cardinality(CallsInProgress) < MaxFaces
    /\ \E t \in Threads, pitch \in Angles, yaw \in Angles, thr \in Thresholds :
          gaze_call(t, pitch, yaw, thr)

ThreadStep ==
    \E t \in Threads :
        \/ gaze_load_total(t)
        \/ gaze_store_total(t)
        \/ gaze_load_count(t)
        \/ gaze_store_count(t)

NextThreads == ThreadCall \/ ThreadStep \/ Stats

SpecThreads == Init /\ [][NextThreads]_vars

-----------------------------------------------------------------------------
(* Vocabulary of the properties *)

IsPrefix(s, t) == Len(s) <= Len(t) /\ s = SubSeq(t, 1, Len(s))

Last(s) == s[Len(s)]

\* the items the writer has taken off the queue so far, in put order
Dequeued == SubSeq(put_log, 1, Len(put_log) - Len(percentage_queue))

\* position of the first sentinel in s, Len(s) + 1 when there is none
FirstSentinel(s) ==
    IF \E i \in 1..Len(s) : s[i] = None
    THEN CHOOSE i \in 1..Len(s) : s[i] = None /\ \A j \in 1..(i - 1) : s[j] # None
    ELSE Len(s) + 1

\* the samples put before the first sentinel
BeforeSentinel(s) == SubSeq(s, 1, FirstSentinel(s) - 1)

SentinelDequeued == \E i \in 1..Len(Dequeued) : Dequeued[i] = None

\* the complete texts of the samples the writer has attempted to write
WrittenTexts == {Format1f(attempts[i]) : i \in 1..Len(attempts)}

-----------------------------------------------------------------------------
(* Properties *)

\* C1: after N sequential draw_bbox_gaze calls of which k returned True,
\* total_faces = N, looks_count = k and no_looks_count = N - k; in particular
\* total_faces = looks_count + no_looks_count between any two calls.
C1_CountersAccumulate ==
    /\ total_faces = n_calls
    /\ looks_count = n_true
    /\ no_looks_count = n_calls - n_true
    /\ total_faces = looks_count + no_looks_count

C1_Witness == n_calls = 3 /\ n_true = 2 /\ no_looks_count = 1

\* C2: the sample a draw_stats call puts on the queue lies in [0, 100], is
\* exactly 0 when total_faces = 0 and otherwise is 100 * looks_count /
\* total_faces for the counters of that call; two looking faces out of three
\* format to "66.7".
C2_SampleValue ==
    [][draw_stats =>
        LET s == Last(percentage_queue') IN
        /\ s # None
        /\ s[2] > 0 /\ 0 <= s[1] /\ s[1] <= 100 * s[2]
        /\ (total_faces = 0 => s = Zero)
        /\ (total_faces > 0 => s[1] * total_faces = 100 * looks_count * s[2])
        /\ (looks_count = 2 /\ total_faces = 3 =>
                Format1f(s) = <<"6", "6", ".", "7">>)]_vars

C2_Witness ==
    /\ \E i \in 1..Len(put_log) : put_log[i] = Zero /\ i = 1
    /\ \E j \in 1..Len(put_log) : put_log[j] = <<200, 3>>
    /\ looks_count = 2 /\ total_faces = 3

\* C3: the samples the writer attempted to write are, at every moment, a
\* prefix of the samples put before the first sentinel; every item is taken
\* off the queue exactly once, in put order, and none is skipped.
C3_FifoPrefix ==
    /\ IsPrefix(attempts, BeforeSentinel(put_log))
    /\ put_log = Dequeued \o percentage_queue
    /\ Dequeued = attempts \o (CASE pc = "open" -> <<percentage>>
                                 [] pc = "stopped" -> <<None>>
                                 [] OTHER -> <<>>)

C3_Witness ==
    /\ Len(attempts) >= 2
    /\ attempts[1] # attempts[2]
    /\ percentage_queue # <<>>

\* C4: when only samples were put, no write attempt raised and the writer has
\* drained the queue, the file holds exactly the one-decimal text of the last
\* sample put.
C4_LastWriteWins ==
    (/\ put_log # <<>>
     /\ \A i \in 1..Len(put_log) : put_log[i] # None
     /\ n_failed = 0
     /\ percentage_queue = <<>>
     /\ pc = "get")
    => file = Format1f(Last(put_log))

C4_Witness ==
    /\ Len(put_log) = 3
    /\ \A i \in 1..3 : put_log[i] # None
    /\ Format1f(put_log[1]) # Format1f(put_log[2])
    /\ Format1f(put_log[2]) # Format1f(put_log[3])
    /\ n_failed = 0
    /\ percentage_queue = <<>>
    /\ pc = "get"
    /\ file = Format1f(put_log[3])

\* C5: in every state a reader of percentage.txt sees the file's initial
\* content or the complete one-decimal text of a sample the writer wrote,
\* never an empty or partially written file.
C5_NoPartialContent == file = NoFile \/ file \in WrittenTexts

\* C6: a write attempt that raises is caught in the writer: the step leaves
\* the writer in its loop, at task_done, and touches nothing of the frame
\* thread (its counters, the queue it puts on); from task_done the writer
\* goes back to get, where it can take the next queued item.
C6_FailureContained ==
    /\ [][n_failed' # n_failed =>
            /\ pc' = "task_done"
            /\ UNCHANGED <<counters, percentage_queue, unfinished_tasks,
                           put_log>>]_vars
    /\ [][pc = "task_done" /\ pc' # pc => pc' = "get"]_vars
    /\ [](pc = "task_done" => ENABLED writer_task_done)
    /\ [](pc = "get" /\ percentage_queue # <<>> => ENABLED writer_get)

\* a write failed, and the next sample was then dequeued and written
C6_Witness ==
    /\ Len(attempts) = 2
    /\ n_failed = 1
    /\ Format1f(attempts[1]) # Format1f(attempts[2])
    /\ file = Format1f(attempts[2])
    /\ pc = "get"

\* C7: once the sentinel is dequeued the writer is stopped: every sample put
\* before the sentinel has had its write attempt, and from then on nothing
\* is dequeued or written and the file never changes.
C7_SentinelStops ==
    /\ [](SentinelDequeued =>
            /\ pc = "stopped"
            /\ attempts = BeforeSentinel(put_log))
    /\ [][SentinelDequeued =>
            /\ pc' = "stopped"
            /\ file' = file
            /\ attempts' = attempts
            /\ IsPrefix(percentage_queue, percentage_queue')]_vars

C7_Witness ==
    /\ pc = "stopped"
    /\ Len(attempts) >= 1
    /\ percentage_queue # <<>>
    /\ Head(percentage_queue) # None

\* C8: the writer is stopped only by dequeuing the sentinel and stays
\* stopped; no sample (0 included), no empty queue and no write failure stops
\* it, and draw_stats never puts the sentinel.
C8_StoppedOnlyBySentinel ==
    /\ [](pc = "stopped" => SentinelDequeued)
    /\ [][pc = "stopped" => pc' = "stopped"]_vars
    /\ [][pc' = "stopped" /\ pc # "stopped" =>
            pc = "get" /\ Head(percentage_queue) = None]_vars
    /\ [][draw_stats => Last(percentage_queue') # None]_vars

\* the writer handled the sample 0 and a failed write and waits on an empty queue
C8_Witness ==
    /\ \E i \in 1..Len(attempts) : attempts[i] = Zero
    /\ n_failed >= 1
    /\ pc = "get"
    /\ percentage_queue = <<>>

\* C9: in the shutdown scenario (5 samples put, then the sentinel) the file
\* holds, once the writer has exited, the complete one-decimal text of one of
\* the 5 samples: not blank, not a fragment.  Stated for the runs in which
\* the writer managed to create the file.
C9_ShutdownFile ==
    (/\ pc = "stopped"
     /\ Len(put_log) = ShutdownSamples + 1
     /\ FirstSentinel(put_log) = ShutdownSamples + 1
     /\ file # NoFile)
    => \E i \in 1..ShutdownSamples : file = Format1f(put_log[i])

\* C10: the put of draw_stats can be taken in every state: whatever the
\* writer is doing and however long the queue is.
C10_PublishNeverBlocks == ENABLED draw_stats

\* the writer is inside a write, after a failed one, with samples waiting
C10_Witness ==
    /\ pc = "write"
    /\ n_failed >= 1
    /\ Len(percentage_queue) >= 2

\* C11: draw_bbox_gaze returns True exactly when pitch^2 + yaw^2 <=
\* attention_threshold^2 (thresholds are not negative), True at equality, and
\* counts the face in looks_count exactly when it returns True and in
\* no_looks_count exactly when it returns False.
C11_LookingIffWithinThreshold ==
    [][n_calls' # n_calls =>
        LET pitch == last_gaze'[1]
            yaw == last_gaze'[2]
            thr == last_gaze'[3]
            within == pitch * pitch + yaw * yaw <= thr * thr
        IN  /\ thr >= 0
            /\ (n_true' = n_true + 1) = within
            /\ (n_true' = n_true) = ~within
            /\ (looks_count' = looks_count + 1) = within
            /\ (looks_count' = looks_count) = ~within
            /\ (no_looks_count' = no_looks_count + 1) = ~within
            /\ (no_looks_count' = no_looks_count) = within]_vars

\* the call at equality (12^2 + 16^2 = 20^2) was counted as looking, after a
\* call just beyond the threshold was counted as not looking
C11_Witness ==
    /\ last_gaze = <<12, 16, 20>>
    /\ looks_count = 1
    /\ no_looks_count = 1

\* C12: the three counters start at zero and no step of the program
\* (draw_bbox_gaze, draw_stats, the writer's steps, the sentinel) ever
\* decreases or resets one of them.
C12_CountersMonotone ==
    /\ (total_faces = 0 /\ looks_count = 0 /\ no_looks_count = 0)
    /\ [][/\ total_faces' >= total_faces
          /\ looks_count' >= looks_count
          /\ no_looks_count' >= no_looks_count]_vars

\* every kind of operation has acted and the counters are up
C12_Witness ==
    /\ total_faces = 3
    /\ looks_count = 2
    /\ no_looks_count = 1
    /\ Len(put_log) >= 2
    /\ Len(attempts) >= 1
    /\ file # NoFile
    /\ pc = "stopped"

\* C13, first half: with draw_bbox_gaze called from several threads, after N
\* completed calls of which k returned True the counters are N, k and N - k.
C13_NoLostIncrement ==
    CallsInProgress = {} =>
        /\ total_faces = n_calls
        /\ looks_count = n_true
        /\ no_looks_count = n_calls - n_true

\* C13, second half: what a concurrent draw_stats can read always satisfies
\* total_faces = looks_count + no_looks_count.
C13_ConsistentSnapshot == total_faces = looks_count + no_looks_count

\* C13: the counter update of draw_bbox_gaze is atomic: no increment is lost
\* under any interleaving of concurrent calls, and a concurrent draw_stats
\* never observes total_faces # looks_count + no_looks_count.
C13_AtomicCounters == C13_NoLostIncrement /\ C13_ConsistentSnapshot

\* C14: only the writer thread changes the file, and only in its open and
\* write steps, between dequeuing a sample (not the sentinel) and marking it
\* done; draw_bbox_gaze (the steps that add to n_calls), draw_stats and the
\* put of the sentinel leave the file as it is.
C14_SingleFileWriter ==
    /\ [][file' # file =>
            /\ pc \in {"open", "write"}
            /\ percentage # None
            /\ writer_open \/ writer_write]_vars
    /\ [][(\/ draw_stats
           \/ put_sentinel
           \/ n_calls' # n_calls)
          => file' = file /\ pc' = pc /\ attempts' = attempts]_vars

\* the writer has replaced the file's content twice while faces were counted
C14_Witness ==
    /\ Len(attempts) = 2
    /\ n_failed = 0
    /\ Format1f(attempts[1]) # Format1f(attempts[2])
    /\ file = Format1f(attempts[2])
    /\ pc = "task_done"
    /\ total_faces >= 2

\* the write attempts that have ended, by a completed write or by an exception
AttemptsCompleted == Len(attempts) - (IF pc = "write" THEN 1 ELSE 0)

SentinelPut == \E i \in 1..Len(put_log) : put_log[i] = None

\* C15: the writer waits only on an empty queue; when it is scheduled
\* fairly, every sample put ahead of any sentinel is eventually dequeued and
\* its write attempt eventually ends, so when the puts stop and no sentinel
\* was put the queue ends up empty with the writer waiting in get.
C15_WriterProgress ==
    /\ [](pc # "stopped" /\ ~(pc = "get" /\ percentage_queue = <<>>)
            => ENABLED percentage_writer)
    /\ [](pc = "get" /\ percentage_queue = <<>> => ~ENABLED percentage_writer)
    /\ \A k \in 1..MaxPuts :
          [](Len(BeforeSentinel(put_log)) >= k => <>(AttemptsCompleted >= k))
    /\ <>[](SentinelPut \/ (percentage_queue = <<>> /\ pc = "get"))

\* samples were waiting behind a failed write and all have been attempted
C15_Witness ==
    /\ Len(put_log) = 3
    /\ ~SentinelPut
    /\ n_failed >= 1
    /\ AttemptsCompleted = 3
    /\ percentage_queue = <<>>
    /\ pc = "get"

\* C16: a draw_stats call appends exactly one sample to the queue and leaves
\* the three counters unchanged; a draw_bbox_gaze call adds 1 to total_faces
\* and to exactly one of looks_count and no_looks_count and leaves the queue
\* unchanged (a draw_bbox_gaze call is a step that adds to n_calls).
C16_FrameEffects ==
    /\ [][draw_stats =>
            /\ Len(percentage_queue') = Len(percentage_queue) + 1
            /\ IsPrefix(percentage_queue, percentage_queue')
            /\ Last(percentage_queue') # None
            /\ looks_count' = looks_count
            /\ no_looks_count' = no_looks_count
            /\ total_faces' = total_faces]_vars
    /\ [][n_calls' # n_calls =>
            /\ total_faces' = total_faces + 1
            /\ \/ looks_count' = looks_count + 1
                  /\ no_looks_count' = no_looks_count
               \/ looks_count' = looks_count
                  /\ no_looks_count' = no_looks_count + 1
            /\ percentage_queue' = percentage_queue
            /\ unfinished_tasks' = unfinished_tasks]_vars

\* both kinds of call have run, with two samples still queued
C16_Witness ==
    /\ looks_count = 1
    /\ no_looks_count = 2
    /\ Len(percentage_queue) = 2
    /\ percentage_queue[1] # percentage_queue[2]
    /\ attempts = <<>>

\* the samples marked done: those whose write attempt has ended and for
\* which the writer has gone on to call task_done
SamplesDone == Len(attempts) - (IF pc \in {"write", "task_done"} THEN 1 ELSE 0)

====
